---------------------------- MODULE Spec2Model ----------------------------
(***************************************************************************)
(* A model of file-structure's traversal engine, src/src/iter.rs:          *)
(* FilesIter (a work list of (file, depth) pairs over an immutable tree,   *)
(* with builder-style options) and its Iterator::next.                     *)
(*                                                                         *)
(* A tree is a record [parent, kind] over the nodes 1..n, node 1 the root. *)
(* The nodes are numbered in breadth-first order, so the child list of a   *)
(* directory, in child order, is its children in increasing number; every  *)
(* finite ordered tree has exactly one such numbering.                     *)
(***************************************************************************)
EXTENDS Integers, Sequences, FiniteSets, TLC

\* Bounds of the model.
MaxNodes == 4
MaxDepthArg == 3

\* usize::MIN and usize::MAX, the defaults of min_depth and max_depth.  TLC's
\* integers are 32 bits wide, so usize_MAX is the largest of them: like the
\* real value it is above every depth a tree can have.
usize_MIN == 0
usize_MAX == 2147483647

\* Option<&File>: None, or Some(file).
None == <<>>

Some(file) == <<file>>

FileTypes == {"Regular", "Symlink", "Directory"}

VARIABLES
    tree,       \* the File tree the iterator borrows: [parent, kind]
    it,         \* the FilesIter value
    started,    \* a pull has been made (the options are set before it)
    last,       \* what the last call of next returned (None before the first)
    out,        \* the nodes the pulls have returned so far, in order
    removed,    \* how many entries the pulls have removed from file_deque
    restarts,   \* how many times the last pull restarted (return self.next())
    panicked,   \* a call of next has panicked (an unwrap() of None)
    paths_iter, \* the PathsIter, None until FilesIter::paths has made one
    it2,        \* a second FilesIter over the same tree
    out2        \* the nodes the pulls of it2 have returned so far, in order

vars == <<tree, it, started, last, out, removed, restarts, panicked, paths_iter, it2, out2>>

--------------------------------------------------------------------------
\* The tree: File and FileType.

\* parent[1] = 0; parent[i] < i; breadth-first numbering.
ParentSeqs(n) ==
    {p \in [1..n -> 0..(n - 1)] :
        /\ p[1] = 0
        /\ \A i \in 2..n : p[i] >= 1 /\ p[i] < i
        /\ \A i \in 2..(n - 1) : p[i] <= p[i + 1]}

\* Only a directory has children.
TreesOfSize(n) ==
    UNION {{[parent |-> p, kind |-> k] :
                k \in {k \in [1..n -> FileTypes] :
                          \A i \in 2..n : k[p[i]] = "Directory"}} :
           p \in ParentSeqs(n)}

Trees == UNION {TreesOfSize(n) : n \in 1..MaxNodes}

Nodes == 1..Len(tree.kind)

is_dir(file) == tree.kind[file] = "Directory"

is_regular(file) == tree.kind[file] = "Regular"

is_symlink(file) == tree.kind[file] = "Symlink"

\* FileType::Directory(children): the child list, in child order.
children_of(file) ==
    SelectSeq([i \in Nodes |-> i], LAMBDA i : tree.parent[i] = file)

\* Edge-distance from the root.
RECURSIVE DepthOf(_)
DepthOf(file) == IF tree.parent[file] = 0 THEN 0 ELSE 1 + DepthOf(tree.parent[file])

--------------------------------------------------------------------------
\* FilesIter.

\* FilesIter::default(), then file_deque seeded with (root, 0) by File::files.
default ==
    [file_deque |-> <<>>,
     files_before_directories |-> FALSE,
     skip_dirs |-> FALSE,
     skip_regular_files |-> FALSE,
     skip_symlinks |-> FALSE,
     min_depth |-> usize_MIN,
     max_depth |-> usize_MAX]

files == [default EXCEPT !.file_deque = <<<<1, 0>>>>]

\* VecDeque operations.
push_back(deque, e) == Append(deque, e)

push_front(deque, e) == <<e>> \o deque

back(deque) == deque[Len(deque)]

front(deque) == deque[1]

without_back(deque) == SubSeq(deque, 1, Len(deque) - 1)

without_front(deque) == Tail(deque)

\* Mutant: the check for the empty work list is missing.
is_empty_missing(deque) == FALSE

\* self.file_deque.is_empty()
is_empty(deque) == deque = <<>>

\* What a call of next gives: the iterator after the call, the item returned,
\* the entries removed, the restarts made, and whether it panicked.
Returned(self, item) ==
    [self |-> self, item |-> item, pops |-> 0, restarts |-> 0, panic |-> FALSE]

\* .unwrap() of the None that back(), pop_front() and pop_back() give on an
\* empty deque.
Panicked(self) ==
    [self |-> self, item |-> None, pops |-> 0, restarts |-> 0, panic |-> TRUE]

\* Mutant: && for ||, so that the back is popped whenever it is a directory.
pop_from_the_left_and(self) ==
    LET last_file_is_directory == is_dir(back(self.file_deque)[1])
    IN  self.files_before_directories /\ ~last_file_is_directory

\* let pop_from_the_left = self.files_before_directories || !last_file_is_directory;
pop_from_the_left(self) ==
    LET last_file_is_directory == is_dir(back(self.file_deque)[1])
    IN  self.files_before_directories \/ ~last_file_is_directory

\* for child in children.iter().rev() { push_back or push_front (child, depth + 1) }
\* k is the number of children still to push: children[k] is pushed next.
RECURSIVE push_children(_, _, _, _)
\* Mutant: the loop stops one child early (the first child is never pushed).
push_children_off_by_one(deque, children, k, depth) ==
    IF k <= 1 THEN deque
    ELSE LET child == children[k]
         IN  push_children(IF is_dir(child)
                             THEN push_back(deque, <<child, depth + 1>>)
                             ELSE push_front(deque, <<child, depth + 1>>),
                           children, k - 1, depth)

\* Mutant: the two branches are swapped (directories to the front, the others
\* to the back).
push_children_swapped(deque, children, k, depth) ==
    IF k = 0 THEN deque
    ELSE LET child == children[k]
         IN  push_children(IF is_dir(child)
                             THEN push_front(deque, <<child, depth + 1>>)
                             ELSE push_back(deque, <<child, depth + 1>>),
                           children, k - 1, depth)

\* Mutant: a child is tagged with the depth of its parent (depth for depth + 1).
push_children_same_depth(deque, children, k, depth) ==
    IF k = 0 THEN deque
    ELSE LET child == children[k]
         IN  push_children(IF is_dir(child)
                             THEN push_back(deque, <<child, depth>>)
                             ELSE push_front(deque, <<child, depth>>),
                           children, k - 1, depth)

\* Mutant: the children are visited first to last (no .rev()).
push_children_forward(deque, children, k, depth) ==
    IF k = 0 THEN deque
    ELSE LET child == children[Len(children) - k + 1]
         IN  push_children(IF is_dir(child)
                             THEN push_back(deque, <<child, depth + 1>>)
                             ELSE push_front(deque, <<child, depth + 1>>),
                           children, k - 1, depth)

push_children(deque, children, k, depth) ==
    IF k = 0 THEN deque
    ELSE LET child == children[k]
         IN  push_children(IF is_dir(child)
                             THEN push_back(deque, <<child, depth + 1>>)
                             ELSE push_front(deque, <<child, depth + 1>>),
                           children, k - 1, depth)

\* if let FileType::Directory(ref children) = &file.file_type { ... }
expand(deque, file, depth) ==
    IF is_dir(file)
    THEN push_children(deque, children_of(file), Len(children_of(file)), depth)
    ELSE deque

\* Mutant: the lower limit is exclusive (>= for >).
skip_by_depth_exclusive(self, depth) == self.min_depth >= depth \/ self.max_depth < depth

\* if self.min_depth > depth || self.max_depth < depth
skip_by_depth(self, depth) == self.min_depth > depth \/ self.max_depth < depth

\* The file type specific skip filters; the third disjunct repeats the second.
skip_by_type(self, file) ==
    \/ self.skip_regular_files /\ is_regular(file)
    \/ self.skip_dirs /\ is_dir(file)
    \/ self.skip_dirs /\ is_dir(file)

\* return self.next(): the result of the call, one more removal counted.
RECURSIVE next(_)
restart(self) ==
    LET r == next(self) IN [r EXCEPT !.pops = @ + 1, !.restarts = @ + 1]

\* Mutant: a skipped directory is not expanded (the filters prune).
next_prune(self) ==
    IF is_empty(self.file_deque) THEN Returned(self, None)
    ELSE IF self.file_deque = <<>> THEN Panicked(self)
    ELSE LET left == pop_from_the_left(self)
             popped == IF left THEN front(self.file_deque) ELSE back(self.file_deque)
             rest == IF left THEN without_front(self.file_deque)
                             ELSE without_back(self.file_deque)
             file == popped[1]
             depth == popped[2]
             self0 == [self EXCEPT !.file_deque = rest]
             self1 == [self EXCEPT !.file_deque = expand(rest, file, depth)]
         IN  IF skip_by_depth(self1, depth) THEN restart(self0)
             ELSE IF skip_by_type(self1, file) THEN restart(self0)
             ELSE [Returned(self1, Some(file)) EXCEPT !.pops = 1]

\* Mutant: a skipped entry ends the call with None (no return self.next()).
next_skip_ends(self) ==
    IF is_empty(self.file_deque) THEN Returned(self, None)
    ELSE IF self.file_deque = <<>> THEN Panicked(self)
    ELSE LET left == pop_from_the_left(self)
             popped == IF left THEN front(self.file_deque) ELSE back(self.file_deque)
             rest == IF left THEN without_front(self.file_deque)
                             ELSE without_back(self.file_deque)
             file == popped[1]
             depth == popped[2]
             self1 == [self EXCEPT !.file_deque = expand(rest, file, depth)]
         IN  IF skip_by_depth(self1, depth) \/ skip_by_type(self1, file)
             THEN [Returned(self1, None) EXCEPT !.pops = 1]
             ELSE [Returned(self1, Some(file)) EXCEPT !.pops = 1]

\* Iterator::next for FilesIter: [self: the iterator after the call,
\* item: None or Some(file), pops: entries removed, restarts].
next(self) ==
    IF is_empty(self.file_deque) THEN Returned(self, None)
    ELSE IF self.file_deque = <<>> THEN Panicked(self)
    ELSE LET left == pop_from_the_left(self)
             popped == IF left THEN front(self.file_deque) ELSE back(self.file_deque)
             rest == IF left THEN without_front(self.file_deque)
                             ELSE without_back(self.file_deque)
             file == popped[1]
             depth == popped[2]
             self1 == [self EXCEPT !.file_deque = expand(rest, file, depth)]
         IN  IF skip_by_depth(self1, depth) THEN restart(self1)
             ELSE IF skip_by_type(self1, file) THEN restart(self1)
             ELSE [Returned(self1, Some(file)) EXCEPT !.pops = 1]

--------------------------------------------------------------------------
\* The state machine.

Init ==
    /\ tree \in Trees
    /\ it = files
    /\ started = FALSE
    /\ last = None
    /\ out = <<>>
    /\ removed = 0
    /\ restarts = 0
    /\ panicked = FALSE
    /\ paths_iter = None
    /\ it2 = None
    /\ out2 = <<>>

\* The arguments the callers pass to min_depth and to max_depth.
MinDepthArgs == 0..MaxDepthArg

MaxDepthArgs == 0..MaxDepthArg \cup {usize_MAX}

Unpulled ==
    UNCHANGED <<tree, started, last, out, removed, restarts, panicked, paths_iter, it2, out2>>

\* The setters: self.<field> = arg; self
set_files_before_directories(self, arg) ==
    [self EXCEPT !.files_before_directories = arg]

set_skip_dirs(self, arg) == [self EXCEPT !.skip_dirs = arg]

set_skip_regular_files(self, arg) == [self EXCEPT !.skip_regular_files = arg]

\* Mutant: the setter writes the field of its neighbour.
set_skip_symlinks_wrong_field(self, arg) == [self EXCEPT !.skip_regular_files = arg]

set_skip_symlinks(self, arg) == [self EXCEPT !.skip_symlinks = arg]

set_min_depth(self, min) == [self EXCEPT !.min_depth = min]

set_max_depth(self, max) == [self EXCEPT !.max_depth = max]

files_before_directories(arg) ==
    /\ ~started
    /\ it' = set_files_before_directories(it, arg)
    /\ Unpulled

skip_dirs(arg) ==
    /\ ~started
    /\ it' = set_skip_dirs(it, arg)
    /\ Unpulled

skip_regular_files(arg) ==
    /\ ~started
    /\ it' = set_skip_regular_files(it, arg)
    /\ Unpulled

skip_symlinks(arg) ==
    /\ ~started
    /\ it' = set_skip_symlinks(it, arg)
    /\ Unpulled

min_depth(min) ==
    /\ ~started
    /\ it' = set_min_depth(it, min)
    /\ Unpulled

max_depth(max) ==
    /\ ~started
    /\ it' = set_max_depth(it, max)
    /\ Unpulled

\* One call of it.next() by the caller.
Pull ==
    LET r == next(it)
    IN  /\ it' = r.self
        /\ started' = TRUE
        /\ last' = r.item
        /\ out' = out \o r.item
        /\ removed' = removed + r.pops
        /\ restarts' = r.restarts
        /\ panicked' = (panicked \/ r.panic)
        /\ UNCHANGED <<tree, paths_iter, it2, out2>>

Next ==
    \/ \E arg \in BOOLEAN : files_before_directories(arg)
    \/ \E arg \in BOOLEAN : skip_dirs(arg)
    \/ \E arg \in BOOLEAN : skip_regular_files(arg)
    \/ \E arg \in BOOLEAN : skip_symlinks(arg)
    \/ \E min \in MinDepthArgs : min_depth(min)
    \/ \E max \in MaxDepthArgs : max_depth(max)
    \/ Pull

Spec == Init /\ [][Next]_vars

--------------------------------------------------------------------------
\* PathsIter.

\* File::path: the path from the root to the file, stored in the node: the
\* names of the nodes from the root down to it.
RECURSIVE path(_)
path(file) ==
    IF tree.parent[file] = 0 THEN <<file>> ELSE Append(path(tree.parent[file]), file)

\* FilesIter::paths: PathsIter { file_iter: self, current_path: PathBuf::new(), .. }
paths_of(self) ==
    [file_iter |-> self, current_path |-> <<>>, show_full_relative_path |-> TRUE]

set_show_full_relative_path(self, arg) ==
    [self EXCEPT !.show_full_relative_path = arg]

\* Mutant: the unused field current_path is returned for the node's path.
paths_next_current_path(self) ==
    LET r == next(self.file_iter)
        self1 == [self EXCEPT !.file_iter = r.self]
    IN  IF r.item = None THEN [r EXCEPT !.self = self1]
        ELSE IF self.show_full_relative_path
             THEN [r EXCEPT !.self = self1, !.item = Some(self.current_path)]
             ELSE [r EXCEPT !.self = self1, !.item = None]

\* Mutant: the line commented out at line 157 is the one in force.
paths_next_shows(self) ==
    LET r == next(self.file_iter)
        self1 == [self EXCEPT !.file_iter = r.self]
    IN  IF r.item = None THEN [r EXCEPT !.self = self1]
        ELSE [r EXCEPT !.self = self1, !.item = Some(path(r.item[1]))]

\* Iterator::next for PathsIter.
paths_next(self) ==
    LET r == next(self.file_iter)
        self1 == [self EXCEPT !.file_iter = r.self]
    IN  IF r.item = None THEN [r EXCEPT !.self = self1]
        ELSE IF self.show_full_relative_path
             THEN [r EXCEPT !.self = self1, !.item = Some(path(r.item[1]))]
             ELSE [r EXCEPT !.self = self1, !.item = None]

\* The iterators root.files() and the setters can build.
Configured ==
    {[files EXCEPT !.files_before_directories = o[1],
                   !.skip_dirs = o[2],
                   !.skip_regular_files = o[3],
                   !.skip_symlinks = o[4],
                   !.min_depth = o[5],
                   !.max_depth = o[6]] :
        o \in BOOLEAN \X BOOLEAN \X BOOLEAN \X BOOLEAN \X MinDepthArgs \X MaxDepthArgs}

\* A configured FilesIter, of which the caller makes a PathsIter.  it stays
\* the iterator as it was configured (paths() takes a clone of it).
InitPaths ==
    /\ tree \in Trees
    /\ it \in Configured
    /\ started = FALSE
    /\ last = None
    /\ out = <<>>
    /\ removed = 0
    /\ restarts = 0
    /\ panicked = FALSE
    /\ paths_iter = None
    /\ it2 = None
    /\ out2 = <<>>

NotPaths == UNCHANGED <<tree, it, started, last, out, removed, restarts, panicked, it2, out2>>

paths ==
    /\ paths_iter = None
    /\ paths_iter' = Some(paths_of(it))
    /\ NotPaths

show_full_relative_path(arg) ==
    /\ paths_iter /= None /\ ~started
    /\ paths_iter' = Some(set_show_full_relative_path(paths_iter[1], arg))
    /\ NotPaths

\* One call of next on the PathsIter by the caller.
PathsPull ==
    /\ paths_iter /= None
    /\ LET r == paths_next(paths_iter[1])
       IN  /\ paths_iter' = Some(r.self)
           /\ started' = TRUE
           /\ last' = r.item
           /\ out' = out \o r.item
           /\ removed' = removed + r.pops
           /\ restarts' = r.restarts
           /\ panicked' = (panicked \/ r.panic)
           /\ UNCHANGED <<tree, it, it2, out2>>

NextPaths ==
    \/ paths
    \/ \E arg \in BOOLEAN : show_full_relative_path(arg)
    \/ PathsPull

PathsSpec == InitPaths /\ [][NextPaths]_vars

--------------------------------------------------------------------------
\* Two FilesIter over one tree.

\* The configurations of the two iterators: either order, directories
\* skipped or not, the root hidden by min_depth or not.
TwoConfigured ==
    {self \in Configured :
        /\ ~self.skip_regular_files /\ ~self.skip_symlinks
        /\ self.min_depth <= 1 /\ self.max_depth = usize_MAX}

\* let mut a = root.files()...; let mut b = root.files()...;
InitTwo ==
    /\ tree \in Trees
    /\ it \in TwoConfigured
    /\ it2 \in TwoConfigured
    /\ started = FALSE
    /\ last = None
    /\ out = <<>>
    /\ removed = 0
    /\ restarts = 0
    /\ panicked = FALSE
    /\ paths_iter = None
    /\ out2 = <<>>

\* Mutant: the second iterator takes its entries from the work list of the
\* first (one work list shared by the two).
Pull2_shared_deque ==
    LET r == next([it2 EXCEPT !.file_deque = it.file_deque])
    IN  /\ it2' = r.self
        /\ it' = [it EXCEPT !.file_deque = r.self.file_deque]
        /\ out2' = out2 \o r.item
        /\ panicked' = (panicked \/ r.panic)
        /\ UNCHANGED <<tree, started, last, out, removed, restarts, paths_iter>>

\* One call of it2.next() by the caller.
Pull2 ==
    LET r == next(it2)
    IN  /\ it2' = r.self
        /\ out2' = out2 \o r.item
        /\ panicked' = (panicked \/ r.panic)
        /\ UNCHANGED <<tree, it, started, last, out, removed, restarts, paths_iter>>

NextTwo == Pull \/ Pull2

TwoSpec == InitTwo /\ [][NextTwo]_vars

--------------------------------------------------------------------------
\* The order mode set again between the pulls.

\* it = it.files_before_directories(arg), before or after any call of next:
\* the setter itself does not ask whether the iteration has begun.
files_before_directories_at_any_time(arg) ==
    /\ it' = set_files_before_directories(it, arg)
    /\ Unpulled

NextReordered ==
    \/ \E arg \in BOOLEAN : files_before_directories_at_any_time(arg)
    \/ Pull

ReorderedSpec == Init /\ [][NextReordered]_vars

\* for file in root.files() { ... }: the items of the calls of next up to the
\* first None.
RECURSIVE drain(_)
drain(self) ==
    LET r == next(self)
    IN  IF r.item = None THEN <<>> ELSE r.item \o drain(r.self)

--------------------------------------------------------------------------
\* Notions the properties are stated with.

Range(s) == {s[i] : i \in DOMAIN s}

NoDup(s) == \A i, j \in DOMAIN s : i /= j => s[i] /= s[j]

Pos(s, x) == CHOOSE i \in DOMAIN s : s[i] = x

Produced == Range(out)

\* x has been produced, and before y if y has been produced.
ProducedBefore(x, y) ==
    /\ x \in Produced
    /\ y \in Produced => Pos(out, x) < Pos(out, y)

\* The caller has pulled until next returned None.
Exhausted == started /\ last = None

NoKindFilters ==
    ~it.skip_dirs /\ ~it.skip_regular_files /\ ~it.skip_symlinks

NoFilters ==
    NoKindFilters /\ it.min_depth = usize_MIN /\ it.max_depth = usize_MAX

InDepthRange(file) ==
    it.min_depth <= DepthOf(file) /\ DepthOf(file) <= it.max_depth

--------------------------------------------------------------------------
\* C1: with no kind filters, min_depth 0 and max_depth unbounded, in default
\* order and in files-before-directories order, the pulls up to the first
\* None produce every node of the tree exactly once and nothing else.
C1_EveryNodeExactlyOnce ==
    NoFilters =>
        /\ NoDup(out)
        /\ Produced \subseteq Nodes
        /\ Exhausted => Produced = Nodes

C1_Witness ==
    /\ Exhausted /\ NoFilters /\ it.files_before_directories
    /\ Len(out) = 4 /\ \E f \in Nodes : DepthOf(f) = 2

\* C2: with no kind filters, the nodes produced are exactly the nodes whose
\* depth d satisfies min_depth <= d <= max_depth, each once, whether or not
\* their ancestors are in the range; min_depth > max_depth produces nothing.
C2_ExactlyTheDepthRange ==
    NoKindFilters =>
        /\ NoDup(out)
        /\ Produced \subseteq {f \in Nodes : InDepthRange(f)}
        /\ Exhausted => Produced = {f \in Nodes : InDepthRange(f)}
        /\ it.min_depth > it.max_depth => out = <<>>

\* A node of depth 2 is produced and none of its ancestors is.
C2_Witness ==
    /\ Exhausted /\ NoKindFilters
    /\ it.min_depth = 2 /\ it.max_depth = 2
    /\ Len(out) >= 1
    /\ \E f \in Nodes : DepthOf(f) = 3


\* C3: the filters hide and never prune: with any setting of skip_dirs,
\* skip_regular_files, min_depth and max_depth, in either order mode, the
\* sequence produced is the sequence the same order mode produces with no
\* filter at all, less the nodes that fail the filter, in the same order.
Unfiltered(self) ==
    [self EXCEPT !.file_deque = files.file_deque,
                 !.skip_dirs = FALSE,
                 !.skip_regular_files = FALSE,
                 !.min_depth = usize_MIN,
                 !.max_depth = usize_MAX]

FailsFilter(file) ==
    \/ it.skip_dirs /\ is_dir(file)
    \/ it.skip_regular_files /\ is_regular(file)
    \/ ~InDepthRange(file)

IsPrefix(s, t) == Len(s) <= Len(t) /\ s = SubSeq(t, 1, Len(s))

C3_FiltersHideNeverPrune ==
    ~it.skip_symlinks =>
        LET kept == SelectSeq(drain(Unfiltered(it)), LAMBDA f : ~FailsFilter(f))
        IN  /\ IsPrefix(out, kept)
            /\ Exhausted => out = kept

\* With skip_dirs, a non-directory two levels below the skipped root is produced.
C3_Witness ==
    /\ Exhausted /\ it.skip_dirs /\ ~it.skip_symlinks
    /\ it.skip_regular_files /\ it.max_depth = 2
    /\ \E f \in Produced : DepthOf(f) = 2 /\ is_symlink(f)
    /\ \E f \in Nodes : is_regular(f)

\* C4: with skip_symlinks set, no pull produces a symlink.
C4_NoSymlinkProduced ==
    it.skip_symlinks => \A f \in Produced : ~is_symlink(f)

\* C5: in both order modes, two directory children X, Y of one directory, X
\* before Y in the child list, are produced X before Y.
SiblingPairs(P(_)) ==
    {xy \in Nodes \X Nodes :
        /\ xy[1] < xy[2]
        /\ tree.parent[xy[1]] = tree.parent[xy[2]]
        /\ P(xy[1]) /\ P(xy[2])}

C5_SiblingDirectoriesInOrder ==
    \A xy \in SiblingPairs(is_dir) :
        xy[2] \in Produced => ProducedBefore(xy[1], xy[2])

\* C6: in both order modes, two non-directory children X, Y of one directory,
\* X before Y in the child list, are produced X before Y; with no filters
\* only non-directory children of that directory are produced between them.
is_not_dir(file) == ~is_dir(file)

C6_SiblingFilesInOrderAndTogether ==
    \A xy \in SiblingPairs(is_not_dir) :
        (xy[1] \in Produced /\ xy[2] \in Produced) =>
            /\ Pos(out, xy[1]) < Pos(out, xy[2])
            /\ NoFilters =>
                  \A i \in Pos(out, xy[1])..Pos(out, xy[2]) :
                      /\ is_not_dir(out[i])
                      /\ tree.parent[out[i]] = tree.parent[xy[1]]

\* Default order, two files with a directory between them in the child list.
C6_Witness ==
    /\ Exhausted /\ NoFilters /\ ~it.files_before_directories
    /\ \E xy \in SiblingPairs(is_not_dir) :
          \E d \in Nodes : /\ xy[1] < d /\ d < xy[2] /\ is_dir(d)
                            /\ tree.parent[d] = tree.parent[xy[1]]

\* C7 as claimed: in files-before-directories mode with no filters the
\* depths of the nodes produced one after the other never decrease.
DepthsNeverDecrease ==
    \A i, j \in DOMAIN out : i < j => DepthOf(out[i]) <= DepthOf(out[j])

C7_LevelOrder ==
    (it.files_before_directories /\ NoFilters) => DepthsNeverDecrease

\* C7 as amended: in files-before-directories mode with no filters every
\* node is produced after its parent, and the depths never decrease when no
\* directory of the tree has more than one directory child.
AtMostOneDirectoryChild == SiblingPairs(is_dir) = {}

C7_ParentFirstAndLevelOrderOfChains ==
    (it.files_before_directories /\ NoFilters) =>
        /\ \A f \in Produced :
              tree.parent[f] /= 0 => ProducedBefore(tree.parent[f], f)
        /\ AtMostOneDirectoryChild => DepthsNeverDecrease

C7_Witness ==
    /\ Exhausted /\ it.files_before_directories /\ NoFilters
    /\ AtMostOneDirectoryChild
    /\ \E f, g \in Produced :
          DepthOf(f) = 2 /\ is_not_dir(g) /\ DepthOf(g) = 1 /\ g > tree.parent[f]

\* C8: in files-before-directories mode every non-directory child of a
\* directory D is produced before every directory child of D, and with no
\* filters the non-directory children of D, in child order, are the nodes
\* produced right after D.
C8_FilesBeforeDirectories ==
    it.files_before_directories =>
        \A D \in Nodes :
            LET fs == SelectSeq(children_of(D), is_not_dir)
                ds == SelectSeq(children_of(D), is_dir)
            IN  /\ \A i \in DOMAIN fs, j \in DOMAIN ds :
                      (fs[i] \in Produced /\ ds[j] \in Produced) =>
                          Pos(out, fs[i]) < Pos(out, ds[j])
                /\ (NoFilters /\ D \in Produced) =>
                      /\ \A i \in DOMAIN fs :
                            Pos(out, D) + i <= Len(out) => out[Pos(out, D) + i] = fs[i]
                      /\ Exhausted => Pos(out, D) + Len(fs) <= Len(out)

\* A directory below the root with two non-directory children, listed after
\* a directory.
C8_Witness ==
    /\ Exhausted /\ it.files_before_directories /\ NoFilters
    /\ \E D \in Nodes :
          /\ D /= 1
          /\ Len(SelectSeq(children_of(D), is_not_dir)) = 2
    /\ \E d \in Nodes : is_dir(d) /\ tree.parent[d] = 1 /\ is_not_dir(d + 1)

\* C9: for one setting of the filters, the default order and the
\* files-before-directories order produce the same nodes the same number of
\* times.
Count(s, x) == Cardinality({i \in DOMAIN s : s[i] = x})

SameBag(s, t) == Len(s) = Len(t) /\ \A x \in Nodes : Count(s, x) = Count(t, x)

OtherOrder(self) ==
    [self EXCEPT !.file_deque = files.file_deque,
                 !.files_before_directories = ~@]

C9_OrderModeOnlyPermutes ==
    Exhausted => SameBag(out, drain(OtherOrder(it)))

\* The two orders differ, and some node is hidden by a filter.
C9_Witness ==
    /\ Exhausted
    /\ out /= drain(OtherOrder(it))
    /\ Len(out) >= 2 /\ Len(out) < Cardinality(Nodes)
    /\ it.skip_regular_files /\ it.min_depth = 1

\* C10: the pulls end.  A call of next restarts at most as often as the tree
\* has nodes; a call that finds the work list non-empty removes at least one
\* entry (so it returns a node or None after finitely many restarts) and the
\* removals never exceed the number of nodes, so that at most that many calls
\* return a node; a call that finds the work list empty returns None; and
\* when next returns None the work list is empty and the calls have removed
\* exactly as many entries as the tree has nodes, whatever the filters hid.
C10_Terminates ==
    /\ [](restarts <= Cardinality(Nodes) /\ removed <= Cardinality(Nodes))
    /\ [](Len(out) + restarts <= removed)
    /\ [](Exhausted => (it.file_deque = <<>> /\ removed = Cardinality(Nodes)))
    /\ [][started' => (removed' > removed \/ Exhausted')]_vars
    /\ [][(started' /\ it.file_deque = <<>>) => Exhausted']_vars

\* Filters hid nodes, and the call that returned None had restarted.
C10_Witness ==
    /\ Exhausted /\ restarts >= 2
    /\ Len(out) >= 1 /\ Len(out) < removed
    /\ it.max_depth = 1 /\ removed = 4


\* C11: exhaustion is terminal: when next has returned None the work list is
\* empty, a further call of next returns None again and leaves the work list
\* empty, and no step leads from an exhausted iterator to one that is not.
C11_ExhaustionIsTerminal ==
    /\ [](Exhausted =>
            /\ it.file_deque = <<>>
            /\ next(it).item = None
            /\ next(it).self = it)
    /\ [][Exhausted => (Exhausted' /\ it'.file_deque = <<>> /\ out' = out)]_vars

\* The None came out of a restart: the last entries removed were hidden.
C11_Witness ==
    /\ Exhausted /\ restarts >= 1 /\ Len(out) >= 2
    /\ it.skip_regular_files /\ it.files_before_directories

\* C13: no pull fails: no call of next, the restarted ones included, inspects
\* the back of an empty work list or removes an entry from one, so that every
\* call returns a node of the tree or None and none panics.
C13_NoPullPanics ==
    /\ ~panicked
    /\ ~next(it).panic
    /\ last = None \/ \E f \in Nodes : last = Some(f)

\* A call that removed the last entries, restarted and found the list empty.
C13_Witness ==
    /\ Exhausted /\ restarts = 3 /\ out = <<>>
    /\ it.min_depth > it.max_depth /\ removed = 3

\* C14: every setter changes its own field to its argument and leaves the
\* work list and every other field as they are; so setters of different
\* options commute, the last setter of one option wins, and a setter step
\* changes nothing but the iterator.
Options ==
    {"files_before_directories", "skip_dirs", "skip_regular_files",
     "skip_symlinks", "min_depth", "max_depth"}

ArgsOf(option) ==
    CASE option = "min_depth" -> MinDepthArgs
      [] option = "max_depth" -> MaxDepthArgs
      [] OTHER -> BOOLEAN

Set(option, self, arg) ==
    CASE option = "files_before_directories" -> set_files_before_directories(self, arg)
      [] option = "skip_dirs" -> set_skip_dirs(self, arg)
      [] option = "skip_regular_files" -> set_skip_regular_files(self, arg)
      [] option = "skip_symlinks" -> set_skip_symlinks(self, arg)
      [] option = "min_depth" -> set_min_depth(self, arg)
      [] option = "max_depth" -> set_max_depth(self, arg)

C14_SettersChangeOnlyTheirField ==
    /\ [](~started =>
            \A o \in Options : \A a \in ArgsOf(o) :
                LET set == Set(o, it, a)
                IN  /\ set[o] = a
                    /\ \A f \in (DOMAIN it) \ {o} : set[f] = it[f]
                    /\ \A b \in ArgsOf(o) : Set(o, Set(o, it, b), a) = set
                    /\ \A p \in Options \ {o} : \A b \in ArgsOf(p) :
                          Set(p, set, b) = Set(o, Set(p, it, b), a))
    /\ [][~started' =>
            /\ it'.file_deque = it.file_deque
            /\ Cardinality({f \in DOMAIN it : it'[f] /= it[f]}) = 1
            /\ UNCHANGED <<tree, started, last, out, removed, restarts>>]_vars

\* Every option has been set away from its default, before any pull.
C14_Witness ==
    /\ ~started
    /\ it.files_before_directories /\ it.skip_dirs /\ it.skip_symlinks
    /\ ~it.skip_regular_files
    /\ it.min_depth = 2 /\ it.max_depth = 1
    /\ it.file_deque = <<<<1, 0>>>>

\* C17: in both order modes every non-directory entry of the work list lies
\* in front of every directory entry, so that the back entry is a directory
\* exactly when the work list holds a directory.
C17_FilesInFrontOfDirectories ==
    LET deque == it.file_deque
    IN  /\ \A i, j \in DOMAIN deque :
              (is_dir(deque[i][1]) /\ is_not_dir(deque[j][1])) => j < i
        /\ deque /= <<>> =>
              (is_dir(back(deque)[1]) <=> \E i \in DOMAIN deque : is_dir(deque[i][1]))

\* Files-before-directories mode, two directories behind a non-directory.
C17_Witness ==
    /\ it.files_before_directories
    /\ Len(it.file_deque) = 3
    /\ is_not_dir(it.file_deque[1][1])
    /\ is_dir(it.file_deque[2][1])

\* C18: every (node, depth) entry of the work list carries the distance of
\* the node from the root.
C18_DepthTagsAreTrue ==
    \A i \in DOMAIN it.file_deque :
        it.file_deque[i][2] = DepthOf(it.file_deque[i][1])

C18_Witness ==
    /\ \E i \in DOMAIN it.file_deque : it.file_deque[i][2] = 3
    /\ Len(out) = 3

\* C19: the default order with no filters: first the directories in
\* depth-first pre-order, children in child order; then the other nodes, by
\* parent directory, the parents taken in the reverse of the order they were
\* produced in, the children of one parent in child order.
RECURSIVE PreOrderOfAll(_)
\* The directories below and including dir, in depth-first pre-order.
PreOrder(dir) == <<dir>> \o PreOrderOfAll(SelectSeq(children_of(dir), is_dir))

PreOrderOfAll(dirs) ==
    IF dirs = <<>> THEN <<>>
    ELSE PreOrder(Head(dirs)) \o PreOrderOfAll(Tail(dirs))

\* The non-directory children of dirs[k], dirs[k-1], ..., dirs[1].
RECURSIVE FilesOfReversed(_, _)
FilesOfReversed(dirs, k) ==
    IF k = 0 THEN <<>>
    ELSE SelectSeq(children_of(dirs[k]), is_not_dir) \o FilesOfReversed(dirs, k - 1)

DefaultOrder ==
    IF is_dir(1)
    THEN PreOrder(1) \o FilesOfReversed(PreOrder(1), Len(PreOrder(1)))
    ELSE <<1>>

C19_DefaultOrderIsDirectoriesThenFiles ==
    (~it.files_before_directories /\ NoFilters) =>
        /\ IsPrefix(out, DefaultOrder)
        /\ Exhausted => out = DefaultOrder

\* Two directories with a non-directory child each.
C19_Witness ==
    /\ Exhausted /\ ~it.files_before_directories /\ NoFilters
    /\ \E f, g \in Nodes :
          /\ is_not_dir(f) /\ is_not_dir(g)
          /\ tree.parent[f] = 1 /\ tree.parent[g] > 1


\* C12: with show_full_relative_path set, the PathsIter made of an iterator
\* produces, item by item, the stored paths of the nodes that iterator
\* produces: same length, same order.
PathsOf(nodes) == [i \in DOMAIN nodes |-> path(nodes[i])]

C12_PathsFollowTheFiles ==
    (paths_iter /= None /\ paths_iter[1].show_full_relative_path) =>
        /\ IsPrefix(out, PathsOf(drain(it)))
        /\ Exhausted => out = PathsOf(drain(it))

\* Filters hide the root, a path of three names is produced.
C12_Witness ==
    /\ paths_iter /= None /\ paths_iter[1].show_full_relative_path
    /\ Exhausted /\ it.files_before_directories /\ it.min_depth = 1
    /\ Len(out) = 3 /\ Len(out[3]) = 3

\* C15: with show_full_relative_path unset every call of next on the
\* PathsIter returns None, from the first one on: no path is ever produced.
C15_NoPathWithoutFullRelativePath ==
    (paths_iter /= None /\ ~paths_iter[1].show_full_relative_path) =>
        /\ out = <<>>
        /\ last = None
        /\ paths_next(paths_iter[1]).item = None

\* Three calls have returned None while the FilesIter inside still has nodes.
C15_Witness ==
    /\ paths_iter /= None /\ ~paths_iter[1].show_full_relative_path
    /\ started /\ removed = 3
    /\ paths_iter[1].file_iter.file_deque /= <<>>
    /\ restarts = 0


\* C16: no call of next changes the tree, and two iterators over one tree,
\* their calls interleaved in any way, each produce the sequence they
\* produce alone.
Alone(self) == drain([self EXCEPT !.file_deque = files.file_deque])

C16_IteratorsDoNotInterfere ==
    /\ [](/\ IsPrefix(out, Alone(it))
          /\ IsPrefix(out2, Alone(it2))
          /\ it.file_deque = <<>> => out = Alone(it)
          /\ it2.file_deque = <<>> => out2 = Alone(it2))
    /\ [][tree' = tree]_vars

\* Both iterators are under way, in different orders, the first one ahead.
C16_Witness ==
    /\ it.files_before_directories /\ ~it2.files_before_directories
    /\ Len(out) = 3 /\ Len(out2) = 2
    /\ out2[2] /= out[2]
    /\ it.file_deque /= <<>> /\ it2.file_deque /= <<>>


\* C20: with no filters and the order mode switched between the pulls at any
\* points, every node is still produced exactly once, and the
\* non-directory entries of the work list stay in front of the directory
\* entries.
FilesInFront(deque) ==
    \A i, j \in DOMAIN deque :
        (i < j /\ is_dir(deque[i][1])) => is_dir(deque[j][1])

C20_ReorderingLosesNothing ==
    /\ NoDup(out)
    /\ Produced \subseteq Nodes
    /\ Exhausted => Produced = Nodes
    /\ Produced \cap {it.file_deque[i][1] : i \in DOMAIN it.file_deque} = {}
    /\ FilesInFront(it.file_deque)

\* The sequence produced is that of neither order mode.
C20_Witness ==
    /\ Exhausted /\ Len(out) = 4
    /\ out /= Alone(set_files_before_directories(it, TRUE))
    /\ out /= Alone(set_files_before_directories(it, FALSE))

==========================================================================
